---------------------------- MODULE Spec2Model ----------------------------
(***************************************************************************)
(* A model of scripts/import_cldr.py, the importer that compiles the CLDR  *)
(* XML corpus into per-locale records and a global table.                  *)
(*                                                                         *)
(* The importer is a sequential batch program.  Its components are         *)
(* modelled as separate specifications over one set of variables:          *)
(*   SpecAlias    _translate_alias applied to a rendered alias path        *)
(*   SpecContain  the territory containment resolver loop                  *)
(*   SpecCurrency the currency-by-territory import and its sort            *)
(*   SpecRun      the incremental-build driver over successive runs        *)
(*   SpecScan     the per-category element scans of the locale extractor   *)
(*   SpecIdent    locale identity and plural/ordinal rule lookup           *)
(* A specification leaves the variables of the other components at their   *)
(* idle values.                                                            *)
(*                                                                         *)
(* Strings that the code parses (alias paths) are sequences of one-        *)
(* character strings, so that split() and the regular expressions are      *)
(* computed character by character.                                        *)
(***************************************************************************)
EXTENDS Integers, Sequences, FiniteSets, TLC

VARIABLES
    \* ---- alias translator (lines 86-99)
    alias_in,       \* the call's arguments: [segs, ctxt, path]
    alias_ctxt,     \* the caller's ctxt list object, as it is now
    alias_out,      \* the outcome of the call; status "pending" before it
    \* ---- territory containment resolver (lines 294-307)
    regions,                \* group id -> member ids
    region_pos,             \* number of region_items already processed
    territory_todo,         \* members of the current group not yet visited
    territory_containment,  \* territory id -> set of containers; absent ids unmapped
    \* ---- currencies in territories (lines 253-265)
    region_elem,            \* the <region> element read
    territory_currencies,   \* region code -> sorted list
    \* ---- driver (lines 142-175, 313-328, 697)
    force,          \* the --force option of the current run
    src,            \* source file -> [revision, fatal]
    dest,           \* source file -> the record stored for it, or Missing
    dest0,          \* dest as it was when the current run started
    pc,             \* "start", "global", "locales", "done", "aborted"
    run_no,         \* number of runs started
    filenames,      \* the list of lines 313-316
    file_pos,       \* entries of filenames already taken by the loop
    handled,        \* destinations the current run has decided about
    extracted,      \* destinations the current run began to regenerate
    written,        \* destinations the current run wrote
    src_changed,    \* a source changed since the current run started
    prev,           \* how the previous run ended, and whether sources changed since
    \* ---- per-category scans of one locale file (lines 360-386, 464-611, 717-736)
    category,       \* the category whose node is scanned
    doc,            \* the node's elements in document order
    doc_pos,        \* elements already taken by the loop
    data,           \* the object stored in the record at the category's slot
    local,          \* the object the loop's local name (widths, date_formats, ...) is bound to
    scan_status,    \* "scanning", or "error" once an exception has left the loop
    scan_log,       \* number of error() calls
    \* ---- identity and plural rules (lines 114-124, 310-311, 332-356)
    ident,          \* the inputs: the file's identity and the two rule files
    ident_pc,       \* "plurals", "ordinals", "identity", "done"
    plural_rules,   \* locale id -> rule, from plurals.xml
    ordinal_rules,  \* locale id -> rule, from ordinals.xml
    ident_data,     \* the record's plural_form / ordinal_form entries
    \* ---- timezone tables of the global record (lines 194-215)
    map_zones,      \* the mapZone elements of windowsZones.xml, in document order
    tz_types,       \* the type elements of the first tz key of bcp47/timezone.xml
    zone_pc,        \* "windows", "bcp47", "done"
    zone_pos,       \* elements already taken by the running loop
    _zone_territory_map,    \* tzid -> territory, built by the windows-zone pass
    global_data,    \* the four timezone tables of global_data
    \* ---- week data of one locale file (lines 337-343, 397-418)
    week_kind,      \* the weekData element kind whose loop is followed
    week_in,        \* the inputs: the file's territory attribute, territory_containment
    week_elems,     \* the elements of that kind under weekData, in document order
    week_pc,        \* "identity", "scan"
    week_pos,       \* elements already taken by the loop
    week_territory, \* the name territory (lines 337-342)
    week_regions,   \* the name regions (line 343)
    week_data,      \* data['week_data']
    \* ---- the locale loop with file contents (lines 318-356, 483-487, 613, 697-714)
    ex_force,       \* the --force option
    ex_src,         \* locale file name -> [present, revision, content]
    ex_dest0,       \* locale file name -> the record stored when the run started
    ex_dest,        \* locale file name -> the record stored now
    ex_list,        \* the list filenames of lines 313-316
    ex_pos,         \* entries of the list already taken by the loop
    ex_pc,          \* "locales", "done", "aborted"
    ex_territory,   \* the value the name territory is bound to
    ex_extracted,   \* files whose extraction the run began
    ex_written      \* files whose record the run wrote

aliasVars   == <<alias_in, alias_ctxt, alias_out>>
containVars == <<regions, region_pos, territory_todo, territory_containment>>
currencyVars == <<region_elem, territory_currencies>>
runVars     == <<force, src, dest, dest0, pc, run_no, filenames, file_pos,
                 handled, extracted, written, src_changed, prev>>
scanVars    == <<category, doc, doc_pos, data, local, scan_status, scan_log>>
identVars   == <<ident, ident_pc, plural_rules, ordinal_rules, ident_data>>
zoneVars    == <<map_zones, tz_types, zone_pc, zone_pos, _zone_territory_map, global_data>>
weekVars    == <<week_kind, week_in, week_elems, week_pc, week_pos, week_territory,
                 week_regions, week_data>>
extractVars == <<ex_force, ex_src, ex_dest0, ex_dest, ex_list, ex_pos, ex_pc,
                 ex_territory, ex_extracted, ex_written>>
vars == <<aliasVars, containVars, currencyVars, runVars, scanVars, identVars,
          zoneVars, weekVars, extractVars>>

Idle == "idle"

\* The idle values a specification gives the components it does not run.
NoOutcome(st) == [status |-> st, keys |-> <<>>]
AliasIdle == alias_in = Idle /\ alias_ctxt = <<>> /\ alias_out = NoOutcome("idle")
ContainIdle ==
    /\ regions = <<>> /\ region_pos = 0
    /\ territory_todo = {} /\ territory_containment = <<>>
CurrencyIdle == region_elem = Idle /\ territory_currencies = <<>>
RunIdle ==
    /\ force = FALSE /\ src = <<>> /\ dest = <<>> /\ dest0 = <<>> /\ pc = Idle
    /\ run_no = 0 /\ filenames = <<>> /\ file_pos = 0
    /\ handled = {} /\ extracted = {} /\ written = {}
    /\ src_changed = FALSE /\ prev = Idle
ScanIdle ==
    /\ category = Idle /\ doc = <<>> /\ doc_pos = 0 /\ data = <<>>
    /\ local = <<>> /\ scan_status = Idle /\ scan_log = 0
IdentIdle ==
    /\ ident = Idle /\ ident_pc = Idle /\ plural_rules = <<>> /\ ordinal_rules = <<>>
    /\ ident_data = <<>>
ZoneIdle ==
    /\ map_zones = <<>> /\ tz_types = <<>> /\ zone_pc = Idle /\ zone_pos = 0
    /\ _zone_territory_map = <<>> /\ global_data = <<>>
WeekIdle ==
    /\ week_kind = Idle /\ week_in = Idle /\ week_elems = <<>> /\ week_pc = Idle
    /\ week_pos = 0 /\ week_territory = <<>> /\ week_regions = {} /\ week_data = <<>>
ExtractIdle ==
    /\ ex_force = FALSE /\ ex_src = <<>> /\ ex_dest0 = <<>> /\ ex_dest = <<>>
    /\ ex_list = <<>> /\ ex_pos = 0 /\ ex_pc = Idle /\ ex_territory = Idle
    /\ ex_extracted = {} /\ ex_written = {}

(***************************************************************************)
(* Generic helpers.                                                        *)
(***************************************************************************)
Last(s) == s[Len(s)]
ButLast(s) == SubSeq(s, 1, Len(s) - 1)

\* All sequences over S of length lo..hi.
SeqsOf(S, lo, hi) == UNION {[1..n -> S] : n \in lo..hi}

\* Python's dict.get(k, default) on a TLA+ function.
DictGet(d, k, default) == IF k \in DOMAIN d THEN d[k] ELSE default

\* Python's d[k] = v on a TLA+ function.
DictSet(d, k, v) == [x \in DOMAIN d \cup {k} |-> IF x = k THEN v ELSE d[x]]

EmptyDict == [x \in {} |-> 0]

(***************************************************************************)
(* Alias translator: NAME_RE, TYPE_ATTR_RE, NAME_MAP, _translate_alias.    *)
(***************************************************************************)
\* The characters \w matches (ASCII letters, digits, underscore).
WordChars ==
    {"a","b","c","d","e","f","g","h","i","j","k","l","m","n","o","p","q","r",
     "s","t","u","v","w","x","y","z","A","B","C","D","E","F","G","H","I","J",
     "K","L","M","N","O","P","Q","R","S","T","U","V","W","X","Y","Z","0","1",
     "2","3","4","5","6","7","8","9","_"}

s_dateFormats == <<"d","a","t","e","F","o","r","m","a","t","s">>
s_dateTimeFormats == <<"d","a","t","e","T","i","m","e","F","o","r","m","a","t","s">>
s_eraAbbr == <<"e","r","a","A","b","b","r">>
s_eraNames == <<"e","r","a","N","a","m","e","s">>
s_eraNarrow == <<"e","r","a","N","a","r","r","o","w">>
s_timeFormats == <<"t","i","m","e","F","o","r","m","a","t","s">>
s_date_formats == <<"d","a","t","e","_","f","o","r","m","a","t","s">>
s_datetime_formats == <<"d","a","t","e","t","i","m","e","_","f","o","r","m","a","t","s">>
s_time_formats == <<"t","i","m","e","_","f","o","r","m","a","t","s">>
s_abbreviated == <<"a","b","b","r","e","v","i","a","t","e","d">>
s_wide == <<"w","i","d","e">>
s_narrow == <<"n","a","r","r","o","w">>
s_full == <<"f","u","l","l">>
s_short == <<"s","h","o","r","t">>
s_calendar == <<"c","a","l","e","n","d","a","r">>
s_gregorian == <<"g","r","e","g","o","r","i","a","n">>
s_months == <<"m","o","n","t","h","s">>
s_days == <<"d","a","y","s">>
s_quarters == <<"q","u","a","r","t","e","r","s">>
s_eras == <<"e","r","a","s">>
s_format == <<"f","o","r","m","a","t">>
s_currency_formats == <<"c","u","r","r","e","n","c","y","_","f","o","r","m","a","t","s">>
s_standard == <<"s","t","a","n","d","a","r","d">>
s_accounting == <<"a","c","c","o","u","n","t","i","n","g">>

\* NAME_MAP, lines 50-57.
NAME_MAP ==
    (s_dateFormats :> s_date_formats) @@
    (s_dateTimeFormats :> s_datetime_formats) @@
    (s_eraAbbr :> s_abbreviated) @@
    (s_eraNames :> s_wide) @@
    (s_eraNarrow :> s_narrow) @@
    (s_timeFormats :> s_time_formats)

\* A faulty variant: the lookup that forgets the table.
NAME_MAP_get_unmapped(part) == part

\* NAME_MAP.get(part, part), line 98.
NAME_MAP_get(part) == DictGet(NAME_MAP, part, part)

\* str.split('/'), line 87: the parts between slashes, empty parts kept.
RECURSIVE SplitSlash(_)
SplitSlash(s) ==
    IF \A i \in 1..Len(s) : s[i] # "/"
    THEN <<s>>
    ELSE LET i == CHOOSE k \in 1..Len(s) :
                      s[k] = "/" /\ \A j \in 1..(k - 1) : s[j] # "/"
         IN  <<SubSeq(s, 1, i - 1)>> \o SplitSlash(SubSeq(s, i + 1, Len(s)))

\* NAME_RE = ^\w+$ (line 47) matched against a part.
NAME_RE_match(part) == Len(part) >= 1 /\ \A i \in 1..Len(part) : part[i] \in WordChars

\* Length of the longest prefix of word characters.
WordPrefixLen(part) ==
    IF \A i \in 1..Len(part) : part[i] \in WordChars
    THEN Len(part)
    ELSE (CHOOSE k \in 1..Len(part) :
              part[k] \notin WordChars /\ \A j \in 1..(k - 1) : part[j] \in WordChars) - 1

TypeOpen == <<"[","@","t","y","p","e","=","'">>
TypeClose == <<"'","]">>

\* TYPE_ATTR_RE = ^\w+\[@type='(.*?)'\]$ (line 48) matched against a part:
\* one or more word characters, the literal [@type=', a lazy group, and '] at
\* the end of the part.  \w+ must stop at the first non-word character, which
\* has to be the "[" of the literal; the lazy group then grows until '] is
\* followed by the end, so it is what lies between the literal and the final '].
TYPE_ATTR_RE_match(part) ==
    LET n == WordPrefixLen(part)
        restFrom == n + Len(TypeOpen) + 1
    IN  IF /\ n >= 1
           /\ Len(part) >= n + Len(TypeOpen) + Len(TypeClose)
           /\ SubSeq(part, n + 1, n + Len(TypeOpen)) = TypeOpen
           /\ SubSeq(part, Len(part) - 1, Len(part)) = TypeClose
        THEN [matched |-> TRUE, group1 |-> SubSeq(part, restFrom, Len(part) - 2)]
        ELSE [matched |-> FALSE, group1 |-> <<>>]

DotDot == <<".", ".">>

\* keys.pop(), line 91, on a non-empty list.
PopKey(keys) == ButLast(keys)

\* The loop of lines 89-98 over the remaining parts.  An exception ends it:
\* IndexError from pop() on an empty list, AssertionError from line 97.
RECURSIVE TranslateParts(_, _)
TranslateParts(keys, parts) ==
    IF parts = <<>>
    THEN [status |-> "ok", keys |-> keys]
    ELSE LET part == Head(parts)
             match == TYPE_ATTR_RE_match(part)
         IN  IF part = DotDot
             THEN IF keys = <<>>
                  THEN [status |-> "IndexError", keys |-> keys]
                  ELSE TranslateParts(PopKey(keys), Tail(parts))
             ELSE IF match.matched
             THEN TranslateParts(Append(keys, match.group1), Tail(parts))
             ELSE IF ~NAME_RE_match(part)
             THEN [status |-> "AssertionError", keys |-> keys]
             ELSE TranslateParts(Append(keys, NAME_MAP_get(part)), Tail(parts))

\* _translate_alias(ctxt, path), lines 86-99.  keys = ctxt[:] is a copy, so
\* the caller's list is the same after the call; the outcome carries it.
_translate_alias(ctxt, path) ==
    LET r == TranslateParts(ctxt, SplitSlash(path))
    IN  [status |-> r.status, keys |-> r.keys, ctxt |-> ctxt]

(***************************************************************************)
(* Inputs of SpecAlias: an alias path is rendered from a list of segment   *)
(* descriptions, so that what the code parses out of the rendered string   *)
(* can be compared with what was put in.                                   *)
(***************************************************************************)
MaxParts == 2

SegUp == [kind |-> "up", name |-> <<>>, value |-> <<>>]
SegName(n) == [kind |-> "name", name |-> n, value |-> <<>>]
SegType(n, v) == [kind |-> "type", name |-> n, value |-> v]
SegBad(t) == [kind |-> "bad", name |-> t, value |-> <<>>]

AliasSegments ==
    { SegUp,
      SegName(s_dateFormats), SegName(s_eraAbbr), SegName(s_calendar),
      SegType(s_dateFormats, s_short), SegType(s_calendar, s_gregorian),
      SegBad(<<>>), SegBad(s_calendar \o <<"[","@","t","y","p","e","=">>) }

AliasContexts == { <<>>, <<s_date_formats>>, <<s_date_formats, s_full>> }

RenderSeg(seg) ==
    CASE seg.kind = "up" -> DotDot
      [] seg.kind = "type" -> seg.name \o TypeOpen \o seg.value \o TypeClose
      [] OTHER -> seg.name

RECURSIVE RenderPath(_)
RenderPath(segs) ==
    IF Len(segs) = 1
    THEN RenderSeg(segs[1])
    ELSE RenderSeg(segs[1]) \o <<"/">> \o RenderPath(Tail(segs))

AliasInit ==
    /\ \E segs \in SeqsOf(AliasSegments, 1, MaxParts), ctxt \in AliasContexts :
           /\ alias_in = [segs |-> segs, ctxt |-> ctxt, path |-> RenderPath(segs)]
           /\ alias_ctxt = ctxt
    /\ alias_out = NoOutcome("pending")

\* One call of _translate_alias with the caller's list and the path.
TranslateAlias ==
    /\ alias_out.status = "pending"
    /\ LET r == _translate_alias(alias_ctxt, alias_in.path)
       IN  /\ alias_out' = [status |-> r.status, keys |-> r.keys]
           /\ alias_ctxt' = r.ctxt
    /\ UNCHANGED <<alias_in, containVars, currencyVars, runVars, scanVars, identVars,
                   zoneVars, weekVars, extractVars>>

AliasNext == TranslateAlias

InitAlias ==
    AliasInit /\ ContainIdle /\ CurrencyIdle /\ RunIdle /\ ScanIdle /\ IdentIdle /\ ZoneIdle /\ WeekIdle
        /\ ExtractIdle

SpecAlias == InitAlias /\ [][AliasNext]_vars

(***************************************************************************)
(* C4.                                                                     *)
(***************************************************************************)
\* The key path the segment descriptions stand for: `..` removes the last
\* key, a type selector appends its value, a bare name appends its NAME_MAP
\* image or itself.  ok is FALSE when a `..` meets an empty key list.
RECURSIVE ExpectedKeys(_, _)
ExpectedKeys(keys, segs) ==
    IF segs = <<>>
    THEN [ok |-> TRUE, keys |-> keys]
    ELSE LET seg == Head(segs)
         IN  CASE seg.kind = "up" ->
                      IF keys = <<>>
                      THEN [ok |-> FALSE, keys |-> keys]
                      ELSE ExpectedKeys(SubSeq(keys, 1, Len(keys) - 1), Tail(segs))
               [] seg.kind = "type" ->
                      ExpectedKeys(Append(keys, seg.value), Tail(segs))
               [] seg.kind = "name" ->
                      ExpectedKeys(
                          Append(keys, IF seg.name \in DOMAIN NAME_MAP
                                       THEN NAME_MAP[seg.name] ELSE seg.name),
                          Tail(segs))
               [] OTHER -> [ok |-> FALSE, keys |-> keys]

AliasExamplePath == DotDot \o <<"/">> \o s_dateFormats \o TypeOpen \o s_short \o TypeClose

\* C4: once _translate_alias has run on a path of `..`, type-selector and
\* bare-name segments (none popping an empty list), it returned the key path
\* obtained from a copy of ctxt by processing the segments left to right;
\* "../dateFormats[@type='short']" in ["date_formats","full"] gives
\* ["date_formats","short"]; and the caller's ctxt list is unchanged.
C4_TranslateAlias ==
    alias_out.status \notin {"idle", "pending"} =>
        LET want == ExpectedKeys(alias_in.ctxt, alias_in.segs)
        IN  /\ want.ok => alias_out.status = "ok" /\ alias_out.keys = want.keys
            /\ alias_ctxt = alias_in.ctxt
            /\ (alias_in.ctxt = <<s_date_formats, s_full>> /\ alias_in.path = AliasExamplePath)
                   => alias_out.keys = <<s_date_formats, s_short>>

C4_Witness ==
    /\ alias_out.status = "ok"
    /\ alias_in.ctxt = <<s_date_formats, s_full>>
    /\ alias_in.path = AliasExamplePath
    /\ alias_out.keys = <<s_date_formats, s_short>>

(***************************************************************************)
(* Territory containment resolver, lines 294-307.                          *)
(*                                                                         *)
(* Identifiers are the numbers 1..NumIds; their numeric order stands for   *)
(* the string order sorted() uses.  regions maps every identifier to the   *)
(* members its group element lists; an identifier with no members stands   *)
(* for a group with an empty list as well as for no group at all (neither  *)
(* makes the loop body run).  The order of a group's members in the        *)
(* document is left open: a step visits any member not yet visited.        *)
(***************************************************************************)
NumIds == 3

Ids == 1..NumIds

\* sorted(regions.items()), line 301: the groups in ascending identifier order.
region_items(regs) == [i \in 1..Cardinality(DOMAIN regs) |->
                          CHOOSE g \in DOMAIN regs :
                              Cardinality({h \in DOMAIN regs : h < g}) = i - 1]

\* A faulty variant: the body without line 305-306, recording direct containers only.
ResolveStep_direct(tc, group, territory) ==
    DictSet(tc, territory, DictGet(tc, territory, {}) \cup {group})

\* A faulty variant: the territory inherits the containers recorded for any
\* identifier, not only those of the group.
ResolveStep_inherit_any(tc, group, territory) ==
    DictSet(tc, territory,
            (DictGet(tc, territory, {}) \cup UNION {tc[g] : g \in DOMAIN tc}) \cup {group})

\* The body of the inner loop, lines 304-307, for one (group, territory).
ResolveStep(tc, group, territory) ==
    LET tc1 == IF territory \in DOMAIN tc THEN tc ELSE DictSet(tc, territory, {})
        inherited == IF group \in DOMAIN tc1 THEN tc1[group] ELSE {}
    IN  DictSet(tc1, territory, (tc1[territory] \cup inherited) \cup {group})

ContainInit ==
    /\ regions \in [Ids -> SUBSET Ids]
    /\ region_pos = 0
    /\ territory_todo = {}
    /\ territory_containment = EmptyDict

\* The outer loop (line 302) takes the next group of region_items.
NextGroup ==
    /\ territory_todo = {}
    /\ region_pos < Len(region_items(regions))
    /\ region_pos' = region_pos + 1
    /\ territory_todo' = regions[region_items(regions)[region_pos + 1]]
    /\ UNCHANGED <<regions, territory_containment>>
    /\ UNCHANGED <<aliasVars, currencyVars, runVars, scanVars, identVars, zoneVars, weekVars, extractVars>>

\* One iteration of the inner loop (lines 303-307).
VisitTerritory ==
    /\ territory_todo # {}
    /\ \E territory \in territory_todo :
           /\ territory_containment' =
                  ResolveStep(territory_containment,
                              region_items(regions)[region_pos], territory)
           /\ territory_todo' = territory_todo \ {territory}
    /\ UNCHANGED <<regions, region_pos>>
    /\ UNCHANGED <<aliasVars, currencyVars, runVars, scanVars, identVars, zoneVars, weekVars, extractVars>>

ContainNext == NextGroup \/ VisitTerritory

InitContain ==
    ContainInit /\ AliasIdle /\ CurrencyIdle /\ RunIdle /\ ScanIdle /\ IdentIdle /\ ZoneIdle /\ WeekIdle
        /\ ExtractIdle

SpecContain == InitContain /\ [][ContainNext]_vars

ContainDone == region_pos = NumIds /\ territory_todo = {}

\* The groups that list t as a member, and all direct and transitive
\* containers of t according to the group definitions.
Parents(t) == {g \in Ids : t \in regions[g]}

RECURSIVE ContainersUpTo(_, _)
ContainersUpTo(t, n) ==
    IF n = 0
    THEN Parents(t)
    ELSE LET a == ContainersUpTo(t, n - 1)
         IN  a \cup UNION {Parents(g) : g \in a}

AllContainers(t) == ContainersUpTo(t, NumIds)

ContainmentOf(t) == DictGet(territory_containment, t, {})

(***************************************************************************)
(* C2.                                                                     *)
(***************************************************************************)
\* C2: after the resolver loop, for all groups G, G' and every territory T,
\* if G lists T and G' lists G then territory_containment[T] contains both G
\* and G', whatever the identifiers are.
C2_TransitiveForEveryInput ==
    ContainDone =>
        \A g \in Ids, g2 \in Ids, t \in Ids :
            (t \in regions[g] /\ g \in regions[g2])
                => {g, g2} \subseteq ContainmentOf(t)

(***************************************************************************)
(* C3.                                                                     *)
(***************************************************************************)
\* Every group that is a member of another group sorts after each group
\* that lists it.
ContainersSortFirst ==
    \A g \in Ids, g2 \in Ids :
        (regions[g] # {} /\ g \in regions[g2]) => g2 < g

\* C3: when every group that is a member of another group sorts after each
\* group containing it, the finished resolver gives each territory exactly
\* the set of its direct and transitive containers.
C3_ExactWhenContainersSortFirst ==
    (ContainDone /\ ContainersSortFirst) =>
        \A t \in Ids : ContainmentOf(t) = AllContainers(t)

C3_Witness ==
    /\ ContainDone /\ ContainersSortFirst
    /\ 2 \in regions[1] /\ 3 \in regions[2] /\ 3 \notin regions[1]
    /\ ContainmentOf(3) = {1, 2}

(***************************************************************************)
(* C17.                                                                    *)
(***************************************************************************)
\* C17: at every step of the resolver loop and for every input, each region
\* recorded in territory_containment[T] is a direct or transitive container
\* of T according to the group definitions.
C17_NeverOverApproximates ==
    \A t \in DOMAIN territory_containment :
        territory_containment[t] \subseteq AllContainers(t)

\* Mid-loop, with a forward reference: group 3 lists group 2, group 2 lists
\* territory 1, and territory 1 holds group 2 only.
C17_Witness ==
    /\ regions[2] = {1} /\ regions[3] = {2} /\ regions[1] = {}
    /\ region_pos = 3 /\ territory_todo = {}
    /\ ContainmentOf(1) = {2} /\ ContainmentOf(2) = {3}

(***************************************************************************)
(* Currencies in territories, lines 102-111 and 253-265.                   *)
(*                                                                         *)
(* A date attribute is the list of its dash-separated numeric fields       *)
(* ("1999-06" is <<1999, 6>>); an absent or empty attribute is <<>>.       *)
(* A parsed date is <<y, m, d>>; None is NoDate.                           *)
(***************************************************************************)
MaxCurrencies == 2

NoAttr == "absent"
NoDate == <<>>

\* _parse_currency_date, lines 102-106: None for an absent or empty string,
\* else the fields padded with 1 to year, month, day.
_parse_currency_date(s) ==
    IF s = <<>>
    THEN NoDate
    ELSE [i \in 1..3 |-> IF i <= Len(s) THEN s[i] ELSE 1]

\* Tuple comparison of two dates, as Python compares tuples.
DateLess(a, b) ==
    \/ a[1] < b[1]
    \/ a[1] = b[1] /\ a[2] < b[2]
    \/ a[1] = b[1] /\ a[2] = b[2] /\ a[3] < b[3]

\* A faulty variant: a key that ignores the tender flag.
_currency_sort_key_start_only(tup) ==
    <<0, IF tup.start = NoDate THEN <<1, 1, 1>> ELSE tup.start>>

\* _currency_sort_key, lines 109-111: (int(not tender), start or (1, 1, 1)).
_currency_sort_key(tup) ==
    <<IF tup.tender THEN 0 ELSE 1,
      IF tup.start = NoDate THEN <<1, 1, 1>> ELSE tup.start>>

KeyLess(k1, k2) == k1[1] < k2[1] \/ (k1[1] = k2[1] /\ DateLess(k1[2], k2[2]))

\* list.sort(key=_currency_sort_key), line 264: a stable sort.  Each element
\* is inserted after every element already placed whose key is not greater.
RECURSIVE SortedInsert(_, _)
SortedInsert(sorted, x) ==
    IF sorted = <<>>
    THEN <<x>>
    ELSE IF KeyLess(_currency_sort_key(x), _currency_sort_key(Last(sorted)))
         THEN Append(SortedInsert(ButLast(sorted), x), Last(sorted))
         ELSE Append(sorted, x)

RECURSIVE SortCurrencies(_)
SortCurrencies(lst) ==
    IF lst = <<>>
    THEN <<>>
    ELSE SortedInsert(SortCurrencies(ButLast(lst)), Last(lst))

\* The tuple appended at lines 258-263 for one <currency> element.
CurrencyTuple(currency) ==
    [code |-> currency.iso4217,
     start |-> _parse_currency_date(currency.from),
     end |-> _parse_currency_date(currency.to),
     tender |-> (IF currency.tender = NoAttr THEN "true" ELSE currency.tender) = "true"]

RegionCodes == {"US", "CH"}
CurrencyElems ==
    [iso4217 : {"X", "Y"},
     from : {<<>>, <<1>>, <<1999>>, <<1999, 6>>, <<2001>>},
     to : {<<>>, <<2002>>},
     tender : {NoAttr, "true", "false"}]

CurrencyInit ==
    /\ region_elem \in [iso3166 : RegionCodes,
                         currencies : SeqsOf(CurrencyElems, 0, MaxCurrencies)]
    /\ territory_currencies = EmptyDict

\* One pass of the loop of lines 254-265 over a <region> element.
ImportRegionCurrencies ==
    /\ region_elem.iso3166 \notin DOMAIN territory_currencies
    /\ LET region_currencies ==
               [i \in 1..Len(region_elem.currencies) |->
                   CurrencyTuple(region_elem.currencies[i])]
       IN  territory_currencies' =
               DictSet(territory_currencies, region_elem.iso3166,
                       SortCurrencies(region_currencies))
    /\ UNCHANGED region_elem
    /\ UNCHANGED <<aliasVars, containVars, runVars, scanVars, identVars, zoneVars, weekVars, extractVars>>

CurrencyNext == ImportRegionCurrencies

InitCurrency ==
    CurrencyInit /\ AliasIdle /\ ContainIdle /\ RunIdle /\ ScanIdle /\ IdentIdle /\ ZoneIdle /\ WeekIdle
        /\ ExtractIdle

SpecCurrency == InitCurrency /\ [][CurrencyNext]_vars

(***************************************************************************)
(* C5.                                                                     *)
(***************************************************************************)
\* Start-date order with an absent start before every present one.
StartBefore(a, b) ==
    \/ a = NoDate /\ b # NoDate
    \/ a # NoDate /\ b # NoDate /\ DateLess(a, b)

\* Start-date order with an absent start counted as 0001-01-01.
EffectiveStart(a) == IF a = NoDate THEN <<1, 1, 1>> ELSE a

\* C5 as stated: in every stored list each legal-tender entry precedes each
\* non-tender entry, and entries of equal tender status are in non-decreasing
\* start order where an absent start sorts before any present one.
C5_Original ==
    \A r \in DOMAIN territory_currencies :
        LET l == territory_currencies[r]
        IN  \A i \in 1..Len(l), j \in 1..Len(l) :
                i < j =>
                    /\ ~(~l[i].tender /\ l[j].tender)
                    /\ (l[i].tender = l[j].tender) => ~StartBefore(l[j].start, l[i].start)

\* C5 amended: as above, but an absent start date counts as 0001-01-01, so
\* it sorts before every present start date later than 0001-01-01 only.
C5_TenderThenEffectiveStart ==
    \A r \in DOMAIN territory_currencies :
        LET l == territory_currencies[r]
        IN  \A i \in 1..Len(l), j \in 1..Len(l) :
                i < j =>
                    /\ ~(~l[i].tender /\ l[j].tender)
                    /\ (l[i].tender = l[j].tender) =>
                           ~DateLess(EffectiveStart(l[j].start), EffectiveStart(l[i].start))

\* The example: (X, 2001, not tender) read before (Y, 1999, tender), stored
\* with Y first.
C5_Witness ==
    /\ Len(region_elem.currencies) = 2
    /\ region_elem.currencies[1].iso4217 = "X"
    /\ region_elem.currencies[1].from = <<2001>>
    /\ region_elem.currencies[1].tender = "false"
    /\ region_elem.currencies[2].iso4217 = "Y"
    /\ region_elem.currencies[2].from = <<1999>>
    /\ region_elem.currencies[2].tender = "true"
    /\ region_elem.iso3166 \in DOMAIN territory_currencies
    /\ territory_currencies[region_elem.iso3166][1].code = "Y"
    /\ territory_currencies[region_elem.iso3166][2].code = "X"

(***************************************************************************)
(* The incremental-build driver: need_conversion (lines 71-83),            *)
(* write_datafile (133-139) and the parts of main that decide and write    *)
(* (173-175, 292, 313-330, 697).  Extraction itself is abstract here: the  *)
(* record written is identified by the source revision it was built from,  *)
(* and a source either extracts or raises (fatal).  Successive runs of the *)
(* program share the destination directory; sources change between runs.  *)
(***************************************************************************)
MaxRuns == 2
MaxRevision == 2

\* data.get('_version') of a record that holds no such key (None).
NoVersion == 0

GlobalSource == "supplementalData.xml"
MainDir == {"root.xml", "en.xml", "en_US.xml", "README"}
Sources == {GlobalSource} \cup (MainDir \ {"README"})

\* len(filename) and os.path.splitext(filename)[1].
FileLen == ("root.xml" :> 8) @@ ("en.xml" :> 6) @@ ("en_US.xml" :> 9) @@ ("README" :> 6)
FileExt == ("root.xml" :> ".xml") @@ ("en.xml" :> ".xml") @@ ("en_US.xml" :> ".xml")
               @@ ("README" :> "")

Missing == [exists |-> FALSE, _version |-> NoVersion, body |-> 0]

\* The dict a run builds for one destination: {} or {'_version': v}, and
\* after extraction the keys read from the source.
EmptyData == [_version |-> NoVersion]

\* A faulty variant: a check that only looks whether the destination exists.
need_conversion_exists_only(dst, data_dict, source) ==
    [data |-> [data_dict EXCEPT !._version = source.revision],
     need |-> ~dst.exists]

\* need_conversion, lines 71-83: stamps data_dict, and answers whether the
\* destination is missing or holds another _version.
need_conversion(dst, data_dict, source) ==
    [data |-> [data_dict EXCEPT !._version = source.revision],
     need |-> IF ~dst.exists THEN TRUE ELSE dst._version # source.revision]

\* `force or need_conversion(path, data, source)`, lines 174-175 and 326-327:
\* with force the call is short-circuited away and data stays {}.
ForceOrNeedConversion(f, dst, source) ==
    IF f
    THEN [data |-> EmptyData, need |-> TRUE]
    ELSE need_conversion(dst, EmptyData, source)

\* write_datafile, lines 133-139: the pickled dict replaces the file.
write_datafile(data_dict, source) ==
    [exists |-> TRUE, _version |-> data_dict._version, body |-> source.revision]

\* filenames.sort(key=len), line 315: stable.
RECURSIVE SortLenInsert(_, _)
SortLenInsert(sorted, x) ==
    IF sorted = <<>>
    THEN <<x>>
    ELSE IF FileLen[x] < FileLen[Last(sorted)]
         THEN Append(SortLenInsert(ButLast(sorted), x), Last(sorted))
         ELSE Append(sorted, x)

RECURSIVE SortByLen(_)
SortByLen(lst) ==
    IF lst = <<>> THEN <<>> ELSE SortLenInsert(SortByLen(ButLast(lst)), Last(lst))

RemoveName(lst, x) == SelectSeq(lst, LAMBDA y : y # x)

\* A faulty variant: the listing sorted by length, root.xml not moved to the front.
OrderFilenames_sorted_only(listing) == SortByLen(listing)

\* Lines 313-316 applied to what os.listdir returned.
OrderFilenames(listing) == <<"root.xml">> \o SortByLen(RemoveName(listing, "root.xml"))

\* os.listdir gives the directory in any order.
Listings == {l \in [1..Cardinality(MainDir) -> MainDir] :
                 \A i, j \in DOMAIN l : i # j => l[i] # l[j]}

RunInit ==
    /\ force = FALSE
    /\ src \in [Sources -> [revision : {1}, fatal : BOOLEAN]]
    /\ src[GlobalSource].fatal = FALSE
    /\ dest = [f \in Sources |-> Missing]
    /\ dest0 = [f \in Sources |-> Missing]
    /\ pc = "start"
    /\ run_no = 0
    /\ filenames = <<>>
    /\ file_pos = 0
    /\ handled = {} /\ extracted = {} /\ written = {}
    /\ src_changed = FALSE
    /\ prev = [done |-> FALSE, unchanged |-> FALSE, force |-> FALSE]

\* The program is started: options parsed, directory listed (lines 142-170,
\* 313-316).
StartRun ==
    /\ pc \in {"start", "done", "aborted"}
    /\ run_no < MaxRuns
    /\ \E f \in BOOLEAN, listing \in Listings :
           /\ force' = f
           /\ filenames' = OrderFilenames(listing)
    /\ prev' = [done |-> pc = "done", unchanged |-> ~src_changed, force |-> force]
    /\ src_changed' = FALSE
    /\ dest0' = dest
    /\ handled' = {} /\ extracted' = {} /\ written' = {}
    /\ file_pos' = 0
    /\ run_no' = run_no + 1
    /\ pc' = "global"
    /\ UNCHANGED <<src, dest>>
    /\ UNCHANGED <<aliasVars, containVars, currencyVars, scanVars, identVars, zoneVars, weekVars, extractVars>>

\* Lines 173-292: the global table is rebuilt and written, or left alone.
ImportGlobal ==
    /\ pc = "global"
    /\ LET d == ForceOrNeedConversion(force, dest[GlobalSource], src[GlobalSource])
       IN  IF d.need
           THEN /\ dest' = [dest EXCEPT ![GlobalSource] =
                                 write_datafile(d.data, src[GlobalSource])]
                /\ extracted' = extracted \cup {GlobalSource}
                /\ written' = written \cup {GlobalSource}
           ELSE UNCHANGED <<dest, extracted, written>>
    /\ handled' = handled \cup {GlobalSource}
    /\ pc' = "locales"
    /\ UNCHANGED <<force, src, dest0, run_no, filenames, file_pos, src_changed, prev>>
    /\ UNCHANGED <<aliasVars, containVars, currencyVars, scanVars, identVars, zoneVars, weekVars, extractVars>>

\* One iteration of the loop of line 318: the file is skipped (not .xml, or
\* up to date), or extracted and written (line 697), or extraction raises
\* and ends the program.
ProcessLocale ==
    /\ pc = "locales"
    /\ file_pos < Len(filenames)
    /\ LET filename == filenames[file_pos + 1]
       IN  IF FileExt[filename] # ".xml"
           THEN UNCHANGED <<dest, extracted, written, handled, pc>>
           ELSE LET d == ForceOrNeedConversion(force, dest[filename], src[filename])
                IN  /\ handled' = handled \cup {filename}
                    /\ IF ~d.need
                       THEN UNCHANGED <<dest, extracted, written, pc>>
                       ELSE /\ extracted' = extracted \cup {filename}
                            /\ IF src[filename].fatal
                               THEN /\ pc' = "aborted"
                                    /\ UNCHANGED <<dest, written>>
                               ELSE /\ dest' = [dest EXCEPT ![filename] =
                                                     write_datafile(d.data, src[filename])]
                                    /\ written' = written \cup {filename}
                                    /\ UNCHANGED pc
    /\ file_pos' = file_pos + 1
    /\ UNCHANGED <<force, src, dest0, run_no, filenames, src_changed, prev>>
    /\ UNCHANGED <<aliasVars, containVars, currencyVars, scanVars, identVars, zoneVars, weekVars, extractVars>>

\* The loop of line 318 is exhausted and main returns.
FinishRun ==
    /\ pc = "locales"
    /\ file_pos = Len(filenames)
    /\ pc' = "done"
    /\ UNCHANGED <<force, src, dest, dest0, run_no, filenames, file_pos,
                   handled, extracted, written, src_changed, prev>>
    /\ UNCHANGED <<aliasVars, containVars, currencyVars, scanVars, identVars, zoneVars, weekVars, extractVars>>

\* Between two runs a source file is replaced by a newer revision.
ChangeSource ==
    /\ pc \in {"done", "aborted"}
    /\ run_no < MaxRuns
    /\ \E f \in Sources, fatal \in BOOLEAN :
           /\ src[f].revision < MaxRevision
           /\ f = GlobalSource => ~fatal
           /\ src' = [src EXCEPT ![f] = [revision |-> src[f].revision + 1,
                                         fatal |-> fatal]]
    /\ src_changed' = TRUE
    /\ UNCHANGED <<force, dest, dest0, pc, run_no, filenames, file_pos,
                   handled, extracted, written, prev>>
    /\ UNCHANGED <<aliasVars, containVars, currencyVars, scanVars, identVars, zoneVars, weekVars, extractVars>>

RunNext == StartRun \/ ImportGlobal \/ ProcessLocale \/ FinishRun \/ ChangeSource

InitRun ==
    RunInit /\ AliasIdle /\ ContainIdle /\ CurrencyIdle /\ ScanIdle /\ IdentIdle /\ ZoneIdle /\ WeekIdle
        /\ ExtractIdle

SpecRun == InitRun /\ [][RunNext]_vars

InRun == pc \in {"global", "locales", "done", "aborted"} /\ ~src_changed

(***************************************************************************)
(* C6.                                                                     *)
(***************************************************************************)
\* The three reasons of the rebuild contract, for the state of the
\* destination when the run started.
StaleAtStart(d) ==
    \/ force
    \/ ~dest0[d].exists
    \/ dest0[d]._version # src[d].revision

\* C6: a destination the run has decided about was regenerated if and only
\* if --force was given, or it did not exist, or its stored _version differed
\* from the source revision; a regenerated destination was written unless its
\* extraction raised; one not regenerated was not written and is unchanged.
C6_RegeneratedIffStale ==
    InRun =>
        \A d \in handled :
            /\ d \in extracted <=> StaleAtStart(d)
            /\ d \in extracted =>
                   (d \in written \/ (pc = "aborted" /\ src[d].fatal))
            /\ d \notin extracted => (d \notin written /\ dest[d] = dest0[d])

C6_Witness ==
    /\ pc = "done" /\ ~src_changed /\ ~force
    /\ \E d \in handled :
           d \notin extracted /\ dest0[d].exists /\ dest[d] = dest0[d]
    /\ \E d \in handled :
           /\ d \in written /\ dest0[d].exists
           /\ dest0[d]._version # NoVersion
           /\ dest0[d]._version # src[d].revision

(***************************************************************************)
(* C7.                                                                     *)
(***************************************************************************)
\* C7: a run without --force that follows a completed run over unchanged
\* sources regenerates and writes nothing.
C7_SecondRunWritesNothing ==
    (InRun /\ run_no >= 2 /\ prev.done /\ prev.unchanged /\ ~force)
        => (extracted = {} /\ written = {})

\* The same, when the completed run before was itself without --force.
SecondRunWritesNothingAfterUnforcedRun ==
    (InRun /\ run_no >= 2 /\ prev.done /\ prev.unchanged /\ ~prev.force /\ ~force)
        => (extracted = {} /\ written = {})

(***************************************************************************)
(* C8.                                                                     *)
(***************************************************************************)
\* C8: every record a run wrote, with or without --force, carries a
\* _version equal to the revision of its source file.
C8_WrittenCarriesRevision ==
    InRun => \A d \in written : dest[d]._version = src[d].revision

\* The same for runs without --force.
UnforcedWrittenCarriesRevision ==
    (InRun /\ ~force) => \A d \in written : dest[d]._version = src[d].revision

(***************************************************************************)
(* C11.                                                                    *)
(***************************************************************************)
\* The locale source files of the directory (line 320).
LocaleFiles == {f \in MainDir : FileExt[f] = ".xml"}

\* The locale files among the entries the loop of line 318 has taken.
TakenLocaleFiles == {filenames[i] : i \in 1..file_pos} \cap LocaleFiles

\* C11: the locale files the run has processed so far are those the loop
\* has taken from its list, one per iteration; root.xml is processed before
\* any other file, and no non-root file is processed while a shorter-named
\* non-root file is still waiting.
C11_RootThenByLength ==
    pc \in {"locales", "done", "aborted"} =>
        /\ handled \cap LocaleFiles = TakenLocaleFiles
        /\ Cardinality(TakenLocaleFiles) <= file_pos
        /\ \A f \in handled \cap LocaleFiles, g \in LocaleFiles \ handled :
               \/ f = "root.xml"
               \/ (g # "root.xml" /\ FileLen[f] <= FileLen[g])

\* root.xml (8 characters) and en.xml (6) are processed, en_US.xml (9) waits.
C11_Witness ==
    /\ pc = "locales"
    /\ handled \cap LocaleFiles = {"root.xml", "en.xml"}
    /\ filenames[1] = "root.xml"
    /\ FileLen[filenames[1]] > FileLen["en.xml"]

(***************************************************************************)
(* The element scans of the locale extractor: the display-name categories  *)
(* (lines 360-386), the calendar categories (469-543), the format          *)
(* categories (555-607) and parse_currency_formats (717-736).              *)
(*                                                                         *)
(* One node of one category is scanned, element by element.  An element    *)
(* is an item (territory, month, dateFormatLength, currencyFormat with a   *)
(* pattern, ...) or an alias.  data is the object stored in the record at  *)
(* the category's slot, local the object the loop's local name is bound    *)
(* to: they are one dict until an assignment rebinds one of them.          *)
(***************************************************************************)
MaxElems == 2

Keys == {1, 2}
Texts == {"a", "b", "bad"}

NameCategories == {"territories", "languages", "variants", "scripts"}
WidthCategories == {"months", "days", "quarters", "eras"}
FormatCategories == {"date_formats", "time_formats", "datetime_formats"}
Categories ==
    NameCategories \cup WidthCategories \cup FormatCategories
        \cup {"datetime_skeletons", "currency_formats"}

\* The type attribute of a currencyFormat element with key k.
CurrencyTypeName == <<s_standard, s_accounting>>

ScanBadPath == s_calendar \o <<"[","@","t","y","p","e","=">>
ScanPaths == {DotDot \o <<"/">> \o s_dateFormats \o TypeOpen \o s_short \o TypeClose,
              ScanBadPath}

ItemElems ==
    [tag : {"item"}, key : Keys, draft : BOOLEAN, alt : BOOLEAN,
     text : Texts, path : {<<>>}]
AliasElems ==
    [tag : {"alias"}, key : {1}, draft : {FALSE}, alt : {FALSE},
     text : {""}, path : ScanPaths]
\* A currencyFormat element whose child is an alias.
CurrencyAliasElems ==
    [tag : {"alias"}, key : Keys, draft : BOOLEAN, alt : BOOLEAN,
     text : {""}, path : ScanPaths]

DocElems(cat) ==
    IF cat \in NameCategories \cup {"datetime_skeletons"} THEN ItemElems
    ELSE IF cat = "currency_formats" THEN ItemElems \cup CurrencyAliasElems
    ELSE ItemElems \cup AliasElems

\* Values held in a dict slot, and the dict or Alias object itself.
TextVal(t) == [kind |-> "text", text |-> t, keys |-> <<>>]
PatternVal(t) == [kind |-> "pattern", text |-> t, keys |-> <<>>]
AliasVal(keys) == [kind |-> "alias", text |-> "", keys |-> keys]
DictObj(m) == [alias |-> FALSE, map |-> m, keys |-> <<>>]
AliasObj(keys) == [alias |-> TRUE, map |-> EmptyDict, keys |-> keys]

\* The alias context each category passes to _translate_alias.
CategoryCtxt(cat, key) ==
    CASE cat = "months" -> <<s_months, s_format, s_wide>>
      [] cat = "days" -> <<s_days, s_format, s_wide>>
      [] cat = "quarters" -> <<s_quarters, s_format, s_wide>>
      [] cat = "eras" -> <<s_eras, s_wide>>
      [] cat = "date_formats" -> <<s_date_formats>>
      [] cat = "time_formats" -> <<s_time_formats>>
      [] cat = "datetime_formats" -> <<s_datetime_formats>>
      [] OTHER -> <<s_currency_formats, CurrencyTypeName[key]>>

\* 'draft' in elem.attrib or 'alt' in elem.attrib (lines 362, 478, 577 ...).
FlagDraftOrAlt(elem) == elem.draft \/ elem.alt
\* 'draft' in elem.attrib or 'alt' not in elem.attrib (lines 499-500).
FlagDay(elem) == elem.draft \/ ~elem.alt
\* 'draft' in elem.attrib (line 559).
FlagDraft(elem) == elem.draft

\* A faulty variant: skip every element whose key is already recorded.
SkipElement_first_wins(flagged, key, d) == key \in DOMAIN d

\* The skip condition: `<flag test> and <key> in <dict>`.
SkipElement(flagged, key, d) == flagged /\ key \in DOMAIN d

\* dates.parse_pattern raises ValueError on a malformed pattern.
PatternRaises(text) == text = "bad"

ScanState(d, l, st, lg) == [data |-> d, local |-> l, status |-> st, log |-> lg]

\* Lines 361-365 (and 368-372, 375-379, 382-386) for one element.
NamesStep(elem, st) ==
    IF SkipElement(FlagDraftOrAlt(elem), elem.key, st.data.map)
    THEN st
    ELSE LET d == DictObj(DictSet(st.data.map, elem.key, TextVal(elem.text)))
         IN  [st EXCEPT !.data = d, !.local = d]

\* Lines 476-487 (months), 496-508 (days), 517-527 (quarters), 533-543
\* (eras) for one element of a width node; flagged is the element's flag
\* test.  widths is local; the slot
\* ctxts[width_type] is data.  An alias rebinds the slot and leaves widths.
WidthStep(flagged, ctxt, elem, st) ==
    IF elem.tag = "item"
    THEN IF SkipElement(flagged, elem.key, st.local.map)
         THEN st
         ELSE LET w == DictObj(DictSet(st.local.map, elem.key, TextVal(elem.text)))
              IN  [st EXCEPT !.local = w, !.data = IF st.data.alias THEN @ ELSE w]
    ELSE LET r == _translate_alias(ctxt, elem.path)
         IN  IF r.status # "ok"
             THEN [st EXCEPT !.status = "error"]
             ELSE [st EXCEPT !.data = AliasObj(r.keys)]

\* Lines 557-571 (date formats), 575-589 (time formats), 594-607 (datetime
\* formats) for one element.  The slot data['date_formats'] is data; the name
\* date_formats is local.  An alias rebinds the local name only.  Once the
\* name is bound to an Alias, `type in date_formats` and
\* `date_formats[type] = ...` raise TypeError, which nothing catches.
FormatStep(flagged, parses, ctxt, elem, st) ==
    IF elem.tag = "item"
    THEN IF flagged /\ st.local.alias
         THEN [st EXCEPT !.status = "error"]
         ELSE IF SkipElement(flagged, elem.key, st.local.map)
         THEN st
         ELSE IF parses /\ PatternRaises(elem.text)
         THEN [st EXCEPT !.log = @ + 1]
         ELSE IF st.local.alias
         THEN [st EXCEPT !.status = "error"]
         ELSE LET v == IF parses THEN PatternVal(elem.text) ELSE TextVal(elem.text)
                  f == DictObj(DictSet(st.local.map, elem.key, v))
              IN  [st EXCEPT !.local = f, !.data = f]
    ELSE LET r == _translate_alias(ctxt, elem.path)
         IN  IF r.status # "ok"
             THEN [st EXCEPT !.status = "error"]
             ELSE [st EXCEPT !.local = AliasObj(r.keys)]

\* Lines 609-611 for one dateFormatItem of an availableFormats element: the
\* pattern is parsed outside any try block.
SkeletonStep(elem, st) ==
    IF PatternRaises(elem.text)
    THEN [st EXCEPT !.status = "error"]
    ELSE LET d == DictObj(DictSet(st.data.map, elem.key, PatternVal(elem.text)))
         IN  [st EXCEPT !.data = d, !.local = d]

\* Lines 721-736 for one currencyFormat element of a currencyFormatLength
\* without a type, whose child is a pattern (item) or an alias.
CurrencyFormatStep(elem, st) ==
    IF SkipElement(FlagDraftOrAlt(elem), elem.key, st.data.map)
    THEN st
    ELSE IF elem.tag = "alias"
    THEN LET r == _translate_alias(CategoryCtxt("currency_formats", elem.key), elem.path)
         IN  IF r.status # "ok"
             THEN [st EXCEPT !.status = "error"]
             ELSE LET d == DictObj(DictSet(st.data.map, elem.key, AliasVal(r.keys)))
                  IN  [st EXCEPT !.data = d, !.local = d]
    ELSE LET d == DictObj(DictSet(st.data.map, elem.key, PatternVal(elem.text)))
         IN  [st EXCEPT !.data = d, !.local = d]

ScanInit ==
    /\ category \in Categories
    /\ doc \in SeqsOf(DocElems(category), 0, MaxElems)
    /\ doc_pos = 0
    /\ data = DictObj(EmptyDict)
    /\ local = DictObj(EmptyDict)
    /\ scan_status = "scanning"
    /\ scan_log = 0

ScanCurrent == ScanState(data, local, scan_status, scan_log)

\* The loop takes the next element and ends up in state st.
ScanTake(cat, st) ==
    /\ category = cat
    /\ scan_status = "scanning"
    /\ doc_pos < Len(doc)
    /\ data' = st.data
    /\ local' = st.local
    /\ scan_status' = st.status
    /\ scan_log' = st.log
    /\ doc_pos' = doc_pos + 1
    /\ UNCHANGED <<category, doc>>
    /\ UNCHANGED <<aliasVars, containVars, currencyVars, runVars, identVars, zoneVars, weekVars, extractVars>>

NextElem == doc[doc_pos + 1]

ScanTerritories == ScanTake("territories", NamesStep(NextElem, ScanCurrent))
ScanLanguages == ScanTake("languages", NamesStep(NextElem, ScanCurrent))
ScanVariants == ScanTake("variants", NamesStep(NextElem, ScanCurrent))
ScanScripts == ScanTake("scripts", NamesStep(NextElem, ScanCurrent))
ScanMonths ==
    ScanTake("months",
             WidthStep(FlagDraftOrAlt(NextElem), CategoryCtxt("months", 1), NextElem, ScanCurrent))
ScanDays ==
    ScanTake("days",
             WidthStep(FlagDay(NextElem), CategoryCtxt("days", 1), NextElem, ScanCurrent))
ScanQuarters ==
    ScanTake("quarters",
             WidthStep(FlagDraftOrAlt(NextElem), CategoryCtxt("quarters", 1), NextElem, ScanCurrent))
ScanEras ==
    ScanTake("eras",
             WidthStep(FlagDraftOrAlt(NextElem), CategoryCtxt("eras", 1), NextElem, ScanCurrent))
ScanDateFormats ==
    ScanTake("date_formats",
             FormatStep(FlagDraft(NextElem), TRUE, CategoryCtxt("date_formats", 1),
                        NextElem, ScanCurrent))
ScanTimeFormats ==
    ScanTake("time_formats",
             FormatStep(FlagDraftOrAlt(NextElem), TRUE, CategoryCtxt("time_formats", 1),
                        NextElem, ScanCurrent))
ScanDatetimeFormats ==
    ScanTake("datetime_formats",
             FormatStep(FlagDraftOrAlt(NextElem), FALSE, CategoryCtxt("datetime_formats", 1),
                        NextElem, ScanCurrent))
ScanDatetimeSkeletons ==
    ScanTake("datetime_skeletons", SkeletonStep(NextElem, ScanCurrent))
ScanCurrencyFormats ==
    ScanTake("currency_formats", CurrencyFormatStep(NextElem, ScanCurrent))

ScanNext ==
    \/ ScanTerritories \/ ScanLanguages \/ ScanVariants \/ ScanScripts
    \/ ScanMonths \/ ScanDays \/ ScanQuarters \/ ScanEras
    \/ ScanDateFormats \/ ScanTimeFormats \/ ScanDatetimeFormats
    \/ ScanDatetimeSkeletons \/ ScanCurrencyFormats

InitScan ==
    ScanInit /\ AliasIdle /\ ContainIdle /\ CurrencyIdle /\ RunIdle /\ IdentIdle /\ ZoneIdle /\ WeekIdle
        /\ ExtractIdle

SpecScan == InitScan /\ [][ScanNext]_vars

ScanFinished == scan_status = "scanning" /\ doc_pos = Len(doc) /\ category # Idle

\* Positions of the item elements of doc with key k.
ItemsWithKey(k) == {i \in 1..Len(doc) : doc[i].tag = "item" /\ doc[i].key = k}

(***************************************************************************)
(* C1.                                                                     *)
(***************************************************************************)
SkipRuleCategories ==
    {"territories", "languages", "scripts", "variants", "months", "quarters", "eras"}

\* C1: in a category scanned with the skip rule, when exactly two elements
\* share a key and one carries a draft/alt flag while the other carries
\* none, the value recorded under the key after the scan is the unflagged
\* element's, whichever of the two comes first.
C1_UnflaggedWinsEitherOrder ==
    (ScanFinished /\ category \in SkipRuleCategories) =>
        \A k \in Keys :
            \A i \in ItemsWithKey(k), j \in ItemsWithKey(k) :
                (/\ ItemsWithKey(k) = {i, j} /\ i # j
                 /\ FlagDraftOrAlt(doc[i]) /\ ~FlagDraftOrAlt(doc[j]))
                    => /\ k \in DOMAIN local.map
                       /\ local.map[k] = TextVal(doc[j].text)

\* Both orders: the flagged element first, and the unflagged element first.
C1_Witness ==
    /\ ScanFinished /\ category = "months" /\ Len(doc) = 2
    /\ doc[1].tag = "item" /\ doc[2].tag = "item"
    /\ doc[1].key = 1 /\ doc[2].key = 1
    /\ doc[1].alt /\ ~FlagDraftOrAlt(doc[2])
    /\ doc[1].text = "a" /\ doc[2].text = "b"
    /\ local.map[1] = TextVal("b")

C1_WitnessUnflaggedFirst ==
    /\ ScanFinished /\ category = "territories" /\ Len(doc) = 2
    /\ doc[1].key = 1 /\ doc[2].key = 1
    /\ ~FlagDraftOrAlt(doc[1]) /\ doc[2].draft
    /\ doc[1].text = "a" /\ doc[2].text = "b"
    /\ data.map[1] = TextVal("a")

(***************************************************************************)
(* C9.                                                                     *)
(***************************************************************************)
AliasCategories == WidthCategories \cup FormatCategories \cup {"currency_formats"}

AliasPositions == {i \in 1..Len(doc) : doc[i].tag = "alias"}

\* The alias element that was read last.
LastAlias == doc[CHOOSE i \in AliasPositions : \A j \in AliasPositions : j <= i]

\* C9: whenever the scanned node of a category contains an alias element,
\* the value in the record at the category's key path is an Alias built by
\* _translate_alias from the category's own key path.
C9_AliasStoredInRecord ==
    (ScanFinished /\ category \in AliasCategories /\ AliasPositions # {}) =>
        IF category = "currency_formats"
        THEN \A i \in AliasPositions :
                 /\ doc[i].key \in DOMAIN data.map
                 /\ data.map[doc[i].key].kind = "alias"
        ELSE /\ data.alias
             /\ data.keys =
                    _translate_alias(CategoryCtxt(category, 1), LastAlias.path).keys

\* The same for the calendar width categories alone.
AliasStoredForWidthCategories ==
    (ScanFinished /\ category \in WidthCategories /\ AliasPositions # {}) =>
        /\ data.alias
        /\ data.keys = _translate_alias(CategoryCtxt(category, 1), LastAlias.path).keys

(***************************************************************************)
(* C12.                                                                    *)
(***************************************************************************)
\* The categories whose values dates.parse_pattern produces.
PatternCategories == {"date_formats", "time_formats", "datetime_skeletons"}

\* The elements taken so far whose pattern string is malformed.
MalformedTaken == {i \in 1..doc_pos : PatternRaises(doc[i].text)}

\* A malformed pattern is logged, its slot stays unset and the scan goes on.
MalformedRecovered ==
    /\ scan_status = "scanning"
    /\ \A i \in MalformedTaken :
           /\ (\A j \in 1..(i - 1) : doc[j].key # doc[i].key) => scan_log >= 1
           /\ (\A j \in 1..doc_pos : doc[j].key = doc[i].key => j \in MalformedTaken)
                  => doc[i].key \notin DOMAIN data.map
    /\ \A k \in DOMAIN data.map : ~PatternRaises(data.map[k].text)

\* C12: in a node of date formats, time formats or available-format
\* skeletons (without alias elements), a malformed pattern string is logged,
\* its slot is left unset and the scan of the file goes on, so that the
\* record is written.
C12_MalformedPatternRecoverable ==
    (category \in PatternCategories /\ AliasPositions = {}) => MalformedRecovered

\* The same for date formats and time formats alone.
MalformedFormatPatternRecoverable ==
    (category \in {"date_formats", "time_formats"} /\ AliasPositions = {})
        => MalformedRecovered

(***************************************************************************)
(* C14.                                                                    *)
(***************************************************************************)
\* C14: in a day width, when exactly two elements name the same weekday and
\* one carries a draft or alt flag while the other carries none, the value
\* recorded for the weekday after the scan is the unflagged element's,
\* whichever of the two comes first.
C14_WeekdayUnflaggedWins ==
    (ScanFinished /\ category = "days") =>
        \A k \in Keys :
            \A i \in ItemsWithKey(k), j \in ItemsWithKey(k) :
                (/\ ItemsWithKey(k) = {i, j} /\ i # j
                 /\ (doc[i].draft \/ doc[i].alt) /\ ~(doc[j].draft \/ doc[j].alt))
                    => /\ k \in DOMAIN local.map
                       /\ local.map[k] = TextVal(doc[j].text)

(***************************************************************************)
(* Plural rule tables and the locale identity: _extract_plural_rules       *)
(* (lines 114-124, called at 310-311) and lines 332-356 of main.           *)
(*                                                                         *)
(* A locale identifier is the sequence of its subtags and separators:      *)
(* "en" is <<"en">>, "en_US" is <<"en", "_", "US">>.  A compiled           *)
(* PluralRule object is identified by the pluralRules element it was       *)
(* built from.  Every locale file declares a language (the DTD requires    *)
(* it); the territory element may be absent.                               *)
(***************************************************************************)
MaxRuleGroups == 1

Languages == {"en", "fr"}
TerritoryAttrs == {NoAttr, "001", "US"}
RuleLocales == {<<"en">>, <<"en", "_", "US">>, <<"en", "_", "001">>}

\* A pluralRules element: the locales attribute, already split at white
\* space, and the rule list.
RuleGroups == [locales : SeqsOf(RuleLocales, 1, 2), rules : {"one;other"}]
RuleFiles == SeqsOf(RuleGroups, 0, MaxRuleGroups)

\* Lines 117-123 for the elements of one file, in document order: every
\* locale of a group is bound to the group's PluralRule, a later group
\* replacing an earlier binding.
RECURSIVE BindLocales(_, _, _)
BindLocales(rule_dict, locales, pr) ==
    IF locales = <<>>
    THEN rule_dict
    ELSE BindLocales(DictSet(rule_dict, Head(locales), pr), Tail(locales), pr)

RECURSIVE ExtractGroups(_, _, _)
ExtractGroups(rule_dict, file, n) ==
    IF n > Len(file)
    THEN rule_dict
    ELSE ExtractGroups(
             BindLocales(rule_dict, file[n].locales,
                         [group |-> n, rules |-> file[n].rules]),
             file, n + 1)

\* _extract_plural_rules(file_path), lines 114-124.
_extract_plural_rules(file) == ExtractGroups(EmptyDict, file, 1)

\* '_'.join(parts) for a list of subtags.
RECURSIVE JoinUnderscore(_)
JoinUnderscore(parts) ==
    IF parts = <<>> THEN <<>>
    ELSE IF Len(parts) = 1 THEN <<parts[1]>>
    ELSE <<parts[1], "_">> \o JoinUnderscore(Tail(parts))

\* A faulty variant: the identifier always carries the territory.
locale_id_with_world(language, territory_attr) ==
    JoinUnderscore(<<language, IF territory_attr = NoAttr THEN "001" ELSE territory_attr>>)

\* Lines 337-342 and 349-352: the territory defaults to '001', and
\* '_'.join(filter(None, [language, territory != '001' and territory or None])).
locale_id(language, territory_attr) ==
    LET territory == IF territory_attr = NoAttr THEN "001" ELSE territory_attr
        second == IF territory # "001" /\ territory # "" THEN <<territory>> ELSE <<>>
    IN  JoinUnderscore(<<language>> \o second)

IdentInit ==
    /\ ident \in [language : Languages, territory : TerritoryAttrs,
                   plurals : RuleFiles, ordinals : RuleFiles]
    /\ ident_pc = "plurals"
    /\ plural_rules = EmptyDict
    /\ ordinal_rules = EmptyDict
    /\ ident_data = EmptyDict

\* Line 310.
ExtractPluralRules ==
    /\ ident_pc = "plurals"
    /\ plural_rules' = _extract_plural_rules(ident.plurals)
    /\ ident_pc' = "ordinals"
    /\ UNCHANGED <<ident, ordinal_rules, ident_data>>
    /\ UNCHANGED <<aliasVars, containVars, currencyVars, runVars, scanVars, zoneVars, weekVars, extractVars>>

\* Line 311.
ExtractOrdinalRules ==
    /\ ident_pc = "ordinals"
    /\ ordinal_rules' = _extract_plural_rules(ident.ordinals)
    /\ ident_pc' = "identity"
    /\ UNCHANGED <<ident, plural_rules, ident_data>>
    /\ UNCHANGED <<aliasVars, containVars, currencyVars, runVars, scanVars, zoneVars, weekVars, extractVars>>

\* Lines 332-356 for one locale file, on a fresh data dict.
ReadIdentity ==
    /\ ident_pc = "identity"
    /\ LET id == locale_id(ident.language, ident.territory)
           d1 == IF id \in DOMAIN plural_rules
                 THEN DictSet(EmptyDict, "plural_form", plural_rules[id])
                 ELSE EmptyDict
           d2 == IF id \in DOMAIN ordinal_rules
                 THEN DictSet(d1, "ordinal_form", ordinal_rules[id])
                 ELSE d1
       IN  ident_data' = d2
    /\ ident_pc' = "done"
    /\ UNCHANGED <<ident, plural_rules, ordinal_rules>>
    /\ UNCHANGED <<aliasVars, containVars, currencyVars, runVars, scanVars, zoneVars, weekVars, extractVars>>

IdentNext == ExtractPluralRules \/ ExtractOrdinalRules \/ ReadIdentity

InitIdent ==
    IdentInit /\ AliasIdle /\ ContainIdle /\ CurrencyIdle /\ RunIdle /\ ScanIdle /\ ZoneIdle /\ WeekIdle
        /\ ExtractIdle

SpecIdent == InitIdent /\ [][IdentNext]_vars

(***************************************************************************)
(* C10.                                                                    *)
(***************************************************************************)
\* The identifier the claim names: the language alone when the territory
\* is absent or the world code, language_territory otherwise.
ClaimedId ==
    IF ident.territory \in {NoAttr, "001"}
    THEN <<ident.language>>
    ELSE <<ident.language, "_", ident.territory>>

\* C10: the record of an extracted locale file holds plural_form (resp.
\* ordinal_form) if and only if the claimed identifier is a key of the
\* cardinal (resp. ordinal) rule table, and then holds that table's entry.
C10_PluralFormsByLocaleId ==
    ident_pc = "done" =>
        /\ "plural_form" \in DOMAIN ident_data <=> ClaimedId \in DOMAIN plural_rules
        /\ "plural_form" \in DOMAIN ident_data
               => ident_data["plural_form"] = plural_rules[ClaimedId]
        /\ "ordinal_form" \in DOMAIN ident_data <=> ClaimedId \in DOMAIN ordinal_rules
        /\ "ordinal_form" \in DOMAIN ident_data
               => ident_data["ordinal_form"] = ordinal_rules[ClaimedId]

\* Language "en", no territory element; "en" is in the cardinal table and
\* only "en_001" in the ordinal table.
C10_Witness ==
    /\ ident_pc = "done"
    /\ ident.language = "en" /\ ident.territory = NoAttr
    /\ DOMAIN plural_rules = {<<"en">>}
    /\ DOMAIN ordinal_rules = {<<"en", "_", "001">>}
    /\ DOMAIN ident_data = {"plural_form"}


(***************************************************************************)
(* Timezone tables of the global record, lines 194-215.                    *)
(*                                                                         *)
(* A timezone id is a sequence of characters; the type attribute of a      *)
(* mapZone and the alias attribute of a bcp47 type are character strings   *)
(* holding ids separated by blanks, which the code takes apart with        *)
(* split().  An element carries the list of ids it was rendered from next  *)
(* to the rendered attribute.  Every attribute holds at least one id, as   *)
(* in the CLDR files.  Only the first tz key is read (the break of line    *)
(* 215); tz_types are its type elements.                                   *)
(***************************************************************************)
MaxMapZones == 2
MaxTzTypes == 2

\* str.split(): the maximal runs of non-blank characters.
RECURSIVE SplitWhite(_)
SplitWhite(str) ==
    IF str = <<>>
    THEN <<>>
    ELSE LET rest == SplitWhite(Tail(str))
         IN  IF Head(str) = " "
             THEN rest
             ELSE IF Len(str) > 1 /\ str[2] # " "
                  THEN <<(<<Head(str)>> \o Head(rest))>> \o Tail(rest)
                  ELSE <<(<<Head(str)>>)>> \o rest

\* An attribute value listing ids, blank-separated.
RECURSIVE JoinBlank(_)
JoinBlank(ids) ==
    IF ids = <<>> THEN <<>>
    ELSE IF Len(ids) = 1 THEN Head(ids)
    ELSE Head(ids) \o <<" ">> \o JoinBlank(Tail(ids))

z_A == <<"A">>
z_B == <<"B", "b">>

World == "001"
ZoneTerritoryNames == {World, "US"}

MapZoneIdLists == {<<z_A>>, <<z_B>>, <<z_A, z_B>>}
TzAliasIdLists == {<<z_A>>, <<z_B>>, <<z_A, z_B>>, <<z_B, z_A>>}

MapZoneElems ==
    {[territory |-> t, other |-> "w", ids |-> l, type |-> JoinBlank(l)] :
         t \in ZoneTerritoryNames, l \in MapZoneIdLists}
TzTypeElems ==
    {[deprecated |-> d, ids |-> l, alias |-> JoinBlank(l)] :
         d \in BOOLEAN, l \in TzAliasIdLists}

EmptyGlobalData ==
    [territory_zones |-> EmptyDict, zone_aliases |-> EmptyDict,
     zone_territories |-> EmptyDict, windows_zone_mapping |-> EmptyDict]

\* for tzid in type.split(): _zone_territory_map[tzid] = territory (200-202).
RECURSIVE RecordZones(_, _, _)
RecordZones(ztm, tzids, territory) ==
    IF tzids = <<>> THEN ztm
    ELSE RecordZones(DictSet(ztm, Head(tzids), territory), Tail(tzids), territory)

\* for alias in aliases: zone_aliases[alias] = tzid (lines 213-214).
RECURSIVE RecordAliases(_, _, _)
RecordAliases(za, aliases, tzid) ==
    IF aliases = <<>> THEN za
    ELSE RecordAliases(DictSet(za, Head(aliases), tzid), Tail(aliases), tzid)

\* A faulty variant: every zone is given the world territory.
ZoneTerritoryGet_world(ztm, tzid) == World

\* _zone_territory_map.get(tzid, '001'), line 210.
ZoneTerritoryGet(ztm, tzid) == DictGet(ztm, tzid, World)

\* The body of the loop of line 206 for one type element (lines 207-214).
TzTypeStep(ztm, gd, elem) ==
    IF elem.deprecated
    THEN gd
    ELSE LET aliases == SplitWhite(elem.alias)
             tzid == Head(aliases)
             territory == ZoneTerritoryGet(ztm, tzid)
         IN  [gd EXCEPT
                 !.territory_zones =
                     DictSet(@, territory, Append(DictGet(@, territory, <<>>), tzid)),
                 !.zone_territories = DictSet(@, tzid, territory),
                 !.zone_aliases = RecordAliases(@, Tail(aliases), tzid)]

ZoneInit ==
    /\ map_zones \in SeqsOf(MapZoneElems, 0, MaxMapZones)
    /\ tz_types \in SeqsOf(TzTypeElems, 0, MaxTzTypes)
    /\ zone_pc = "windows"
    /\ zone_pos = 0
    /\ _zone_territory_map = EmptyDict
    /\ global_data = EmptyGlobalData

\* One iteration of the loop of line 195 (lines 197-202).
MapZone ==
    /\ zone_pc = "windows"
    /\ zone_pos < Len(map_zones)
    /\ LET map_zone == map_zones[zone_pos + 1]
           tzids == SplitWhite(map_zone.type)
       IN  /\ global_data' =
                  IF map_zone.territory = World
                  THEN [global_data EXCEPT !.windows_zone_mapping =
                            DictSet(@, map_zone.other, Head(tzids))]
                  ELSE global_data
           /\ _zone_territory_map' =
                  RecordZones(_zone_territory_map, tzids, map_zone.territory)
    /\ zone_pos' = zone_pos + 1
    /\ UNCHANGED <<map_zones, tz_types, zone_pc>>
    /\ UNCHANGED <<aliasVars, containVars, currencyVars, runVars, scanVars, identVars, weekVars, extractVars>>

\* The loop of line 195 is exhausted; the tz key is found (lines 204-205).
FindTzKey ==
    /\ zone_pc = "windows"
    /\ zone_pos = Len(map_zones)
    /\ zone_pc' = "bcp47"
    /\ zone_pos' = 0
    /\ UNCHANGED <<map_zones, tz_types, _zone_territory_map, global_data>>
    /\ UNCHANGED <<aliasVars, containVars, currencyVars, runVars, scanVars, identVars, weekVars, extractVars>>

\* One iteration of the loop of line 206.
TzType ==
    /\ zone_pc = "bcp47"
    /\ zone_pos < Len(tz_types)
    /\ global_data' = TzTypeStep(_zone_territory_map, global_data, tz_types[zone_pos + 1])
    /\ zone_pos' = zone_pos + 1
    /\ UNCHANGED <<map_zones, tz_types, zone_pc, _zone_territory_map>>
    /\ UNCHANGED <<aliasVars, containVars, currencyVars, runVars, scanVars, identVars, weekVars, extractVars>>

\* The loop of line 206 is exhausted (the break of line 215).
ZonesDone ==
    /\ zone_pc = "bcp47"
    /\ zone_pos = Len(tz_types)
    /\ zone_pc' = "done"
    /\ UNCHANGED <<map_zones, tz_types, zone_pos, _zone_territory_map, global_data>>
    /\ UNCHANGED <<aliasVars, containVars, currencyVars, runVars, scanVars, identVars, weekVars, extractVars>>

ZoneNext == MapZone \/ FindTzKey \/ TzType \/ ZonesDone

InitZones ==
    ZoneInit /\ AliasIdle /\ ContainIdle /\ CurrencyIdle /\ RunIdle /\ ScanIdle
        /\ IdentIdle /\ WeekIdle
        /\ ExtractIdle

SpecZones == InitZones /\ [][ZoneNext]_vars

(***************************************************************************)
(* C15.                                                                    *)
(***************************************************************************)
SeqRange(q) == {q[i] : i \in 1..Len(q)}

\* The territory of the last mapZone element that lists z, or the world
\* territory when none does.
WindowsTerritory(z) ==
    LET listing == {i \in 1..Len(map_zones) : z \in SeqRange(map_zones[i].ids)}
    IN  IF listing = {}
        THEN World
        ELSE map_zones[CHOOSE i \in listing : \A j \in listing : j <= i].territory

\* C15: after the pass, the first alias of every non-deprecated tz type is
\* a canonical id (a key of zone_territories) and its further aliases are
\* keys of zone_aliases; every value of zone_aliases is a key of
\* zone_territories; every canonical id z is listed in
\* territory_zones[zone_territories[z]]; and zone_territories[z] is the
\* territory the windows-zone pass recorded for z, or "001" when it recorded
\* none.
C15_ZoneTablesConsistent ==
    zone_pc = "done" =>
        LET zt == global_data.zone_territories
            za == global_data.zone_aliases
            tz == global_data.territory_zones
        IN  /\ \A i \in 1..Len(tz_types) :
                   ~tz_types[i].deprecated =>
                       /\ tz_types[i].ids[1] \in DOMAIN zt
                       /\ \A j \in 2..Len(tz_types[i].ids) :
                              tz_types[i].ids[j] \in DOMAIN za
            /\ \A a \in DOMAIN za : za[a] \in DOMAIN zt
            /\ \A z \in DOMAIN zt :
                   /\ zt[z] \in DOMAIN tz
                   /\ z \in SeqRange(tz[zt[z]])
                   /\ zt[z] = WindowsTerritory(z)
                   /\ zt[z] = DictGet(_zone_territory_map, z, World)

\* Zone A is canonical with alias Bb; the windows pass recorded US for A and
\* nothing for the canonical zone of a second type.
C15_Witness ==
    /\ zone_pc = "done"
    /\ Len(map_zones) = 1 /\ map_zones[1].territory = "US" /\ map_zones[1].ids = <<z_A>>
    /\ Len(tz_types) = 2
    /\ tz_types[1].ids = <<z_A, z_B>> /\ ~tz_types[1].deprecated
    /\ tz_types[2].ids = <<z_B>> /\ ~tz_types[2].deprecated
    /\ global_data.zone_territories[z_A] = "US"
    /\ global_data.zone_territories[z_B] = World
    /\ global_data.zone_aliases[z_B] = z_A
    /\ global_data.territory_zones["US"] = <<z_A>>


(***************************************************************************)
(* Week data of one locale file: the territory and its containment set     *)
(* (lines 337-343) and the four loops over the weekData element of the     *)
(* supplemental file (lines 397-418).                                      *)
(*                                                                         *)
(* The four loops differ in the element kind, the field they set and the   *)
(* conversion of the value; the loop of one kind is followed.  A territory *)
(* code is a sequence of characters and the territories attribute a        *)
(* blank-separated string.                                                 *)
(***************************************************************************)
MaxWeekElems == 2

t_US == <<"U", "S">>
t_019 == <<"0", "1", "9">>
t_001 == <<"0", "0", "1">>

\* The file has no identity/territory element.
NoTerritory == <<>>

WeekKinds == {"minDays", "firstDay", "weekendStart", "weekendEnd"}

\* The field each loop sets (lines 403, 408, 413, 418).
WeekField ==
    ("minDays" :> "min_days") @@ ("firstDay" :> "first_day")
        @@ ("weekendStart" :> "weekend_start") @@ ("weekendEnd" :> "weekend_end")

\* The table weekdays of lines 35-36, for the days used.
weekdays == ("mon" :> 0) @@ ("sun" :> 6)

\* int() of a count attribute.
CountValue == ("1" :> 1) @@ ("4" :> 4)

\* int(elem.attrib['count']) or weekdays[elem.attrib['day']].
WeekValue(kind, attr) == IF kind = "minDays" THEN CountValue[attr] ELSE weekdays[attr]

WeekIdLists == {<<t_US>>, <<t_019>>, <<t_001>>, <<t_019, t_US>>}

WeekElems(kind) ==
    {[ids |-> l, territories |-> JoinBlank(l), attr |-> a] :
         l \in WeekIdLists,
         a \in IF kind = "minDays" THEN {"1", "4"} ELSE {"mon", "sun"}}

\* Values of territory_containment, as the resolver leaves it.
WeekContainments ==
    {EmptyDict, (t_US :> {t_019}), (t_US :> {t_019, t_001})}

\* A faulty variant: only the territory itself is looked for.
WeekMatches_territory_only(territory, regs, territories) ==
    territory \in {territories[i] : i \in 1..Len(territories)}

\* territory in territories or any([r in territories for r in regions]).
WeekMatches(territory, regs, territories) ==
    LET listed == {territories[i] : i \in 1..Len(territories)}
    IN  territory \in listed \/ \E r \in regs : r \in listed

\* The body of one of the four loops for one element.
WeekStep(kind, territory, regs, elem, wd) ==
    IF WeekMatches(territory, regs, SplitWhite(elem.territories))
    THEN DictSet(wd, WeekField[kind], WeekValue(kind, elem.attr))
    ELSE wd

WeekInit ==
    /\ week_kind \in WeekKinds
    /\ week_in \in [territory : {NoTerritory, t_US}, containment : WeekContainments]
    /\ week_elems \in SeqsOf(WeekElems(week_kind), 0, MaxWeekElems)
    /\ week_pc = "identity"
    /\ week_pos = 0
    /\ week_territory = NoTerritory
    /\ week_regions = {}
    /\ week_data = EmptyDict

\* Lines 337-343: the territory of the file, '001' when it names none, and
\* the containment set recorded for it.
ReadWeekTerritory ==
    /\ week_pc = "identity"
    /\ LET territory == IF week_in.territory # NoTerritory
                        THEN week_in.territory ELSE t_001
       IN  /\ week_territory' = territory
           /\ week_regions' = DictGet(week_in.containment, territory, {})
    /\ week_pc' = "scan"
    /\ UNCHANGED <<week_kind, week_in, week_elems, week_pos, week_data>>
    /\ UNCHANGED <<aliasVars, containVars, currencyVars, runVars, scanVars, identVars,
                   zoneVars, extractVars>>

\* One iteration of the loop over the elements of kind.
WeekTake(kind) ==
    /\ week_pc = "scan"
    /\ week_kind = kind
    /\ week_pos < Len(week_elems)
    /\ week_data' = WeekStep(kind, week_territory, week_regions,
                             week_elems[week_pos + 1], week_data)
    /\ week_pos' = week_pos + 1
    /\ UNCHANGED <<week_kind, week_in, week_elems, week_pc, week_territory, week_regions>>
    /\ UNCHANGED <<aliasVars, containVars, currencyVars, runVars, scanVars, identVars,
                   zoneVars, extractVars>>

\* Lines 400-403, 405-408, 410-413, 415-418.
WeekMinDays == WeekTake("minDays")
WeekFirstDay == WeekTake("firstDay")
WeekendStart == WeekTake("weekendStart")
WeekendEnd == WeekTake("weekendEnd")

WeekNext ==
    ReadWeekTerritory \/ WeekMinDays \/ WeekFirstDay \/ WeekendStart \/ WeekendEnd

InitWeek ==
    WeekInit /\ AliasIdle /\ ContainIdle /\ CurrencyIdle /\ RunIdle /\ ScanIdle
        /\ IdentIdle /\ ZoneIdle
        /\ ExtractIdle

SpecWeek == InitWeek /\ [][WeekNext]_vars

(***************************************************************************)
(* C16.                                                                    *)
(***************************************************************************)
WeekFinished == week_pc = "scan" /\ week_pos = Len(week_elems)

\* The territory of the locale and the regions of its containment set.
LocaleTerritory == IF week_in.territory = NoTerritory THEN t_001 ELSE week_in.territory
LocaleRegions == DictGet(week_in.containment, LocaleTerritory, {})

\* The elements that list the territory or one of its containing regions.
WeekMatching ==
    {i \in 1..Len(week_elems) :
         SeqRange(week_elems[i].ids) \cap ({LocaleTerritory} \cup LocaleRegions) # {}}

\* C16: after the loop of a week-data field, the field is in the record if
\* and only if some element of its kind lists the locale's territory or a
\* region of the territory's containment set, and it then holds the value of
\* the last such element in document order.
C16_WeekDataLastMatchWins ==
    WeekFinished =>
        LET field == WeekField[week_kind]
        IN  /\ field \in DOMAIN week_data <=> WeekMatching # {}
            /\ WeekMatching # {} =>
                   LET last == CHOOSE i \in WeekMatching : \A j \in WeekMatching : j <= i
                   IN  week_data[field] = WeekValue(week_kind, week_elems[last].attr)

\* The first element names the territory itself, the second only a region
\* containing it; the second one's value is stored.
C16_Witness ==
    /\ WeekFinished /\ week_kind = "firstDay"
    /\ week_in.territory = t_US /\ t_019 \in LocaleRegions
    /\ Len(week_elems) = 2
    /\ week_elems[1].ids = <<t_US>> /\ week_elems[1].attr = "sun"
    /\ week_elems[2].ids = <<t_019>> /\ week_elems[2].attr = "mon"
    /\ week_data["first_day"] = 0


(***************************************************************************)
(* The locale loop with file contents: lines 318-356 (staleness test,      *)
(* identity, plural form), the alias of a month width (483-487),           *)
(* parse_interval_formats (613, 700-714) and write_datafile (697).         *)
(*                                                                         *)
(* A locale file may be absent from the directory.  Its content is its     *)
(* territory attribute, the path of an alias element in its wide format    *)
(* month width, and one intervalFormatItem with one sub-element.  The name *)
(* territory is a local of main and keeps its value from one iteration to  *)
(* the next.  An exception that leaves the loop ends the program.          *)
(***************************************************************************)
ExFiles == {"root.xml", "en.xml", "en_US.xml"}

NoPath == <<>>
NoItem == [present |-> FALSE, draft |-> FALSE, sub |-> ""]

IntervalItems ==
    {NoItem} \cup [present : {TRUE}, draft : {FALSE}, sub : {"greatestDifference", "other"}]
        \cup [present : {TRUE}, draft : {TRUE}, sub : {"other"}]

ExContents ==
    {c \in [language : {"en"}, territory : {NoAttr, "US"},
            alias : {NoPath} \cup ScanPaths, interval : IntervalItems] :
         c.alias = NoPath \/ c.interval = NoItem}

AbsentFile == [present |-> FALSE, revision |-> 0, content |-> 0]
ExSources == {AbsentFile} \cup [present : {TRUE}, revision : {1}, content : ExContents]

\* The plural rule table of line 310.
ExPluralRules == (<<"en">> :> "one_other") @@ (<<"en", "_", "US">> :> "one_other_us")
NoRule == "none"

NoBody == [plural_form |-> NoRule, months |-> <<>>, interval |-> ""]
ExMissing == [exists |-> FALSE, _version |-> NoVersion, body |-> NoBody]

\* A faulty variant: without the else branch of lines 341-342.
ReadTerritory_carry(bound, attr) == IF attr # NoAttr THEN attr ELSE bound

\* Lines 337-342: the file's territory, or '001'.
ReadTerritory(bound, attr) == IF attr # NoAttr THEN attr ELSE "001"

\* A faulty variant: an unknown sub-element is passed over.
IntervalItemSub_ignore(sub) == "ok"

\* Lines 711-714 for one sub-element of an intervalFormatItem.
IntervalItemSub(sub) ==
    IF sub = "greatestDifference" THEN "ok" ELSE "NotImplementedError"

\* parse_interval_formats, lines 700-714, for the item of the file.
parse_interval_formats(item) ==
    IF ~item.present \/ item.draft
    THEN [status |-> "ok", interval |-> ""]
    ELSE IF IntervalItemSub(item.sub) = "ok"
    THEN [status |-> "ok", interval |-> item.sub]
    ELSE [status |-> IntervalItemSub(item.sub), interval |-> ""]

\* Lines 330-697 for one file: the names language and territory are bound,
\* the plural form looked up, the month alias translated, the interval
\* formats parsed.  status is "ok" or the exception raised.
ExtractFile(prev_territory, content) ==
    LET territory == ReadTerritory(prev_territory, content.territory)
        id == locale_id(content.language, territory)
        plural == DictGet(ExPluralRules, id, NoRule)
        months == IF content.alias = NoPath
                  THEN [status |-> "ok", keys |-> <<>>]
                  ELSE _translate_alias(<<s_months, s_format, s_wide>>, content.alias)
        interval == parse_interval_formats(content.interval)
    IN  [territory |-> territory,
         status |-> IF months.status # "ok" THEN months.status ELSE interval.status,
         body |-> [plural_form |-> plural,
                   months |-> IF months.status = "ok" THEN months.keys ELSE <<>>,
                   interval |-> interval.interval]]

\* The locale files of the directory, ordered by lines 313-316.
PresentFiles(sources) == {f \in ExFiles : sources[f].present}
ExListings(sources) ==
    {l \in [1..Cardinality(PresentFiles(sources)) -> PresentFiles(sources)] :
         \A i, j \in DOMAIN l : i # j => l[i] # l[j]}

\* What a run over the file's own content alone stores for it.
OwnTerritory(content) == IF content.territory = NoAttr THEN "001" ELSE content.territory
ExpectedBody(content) == ExtractFile(OwnTerritory(content), content).body

ExtractInit ==
    /\ ex_force \in BOOLEAN
    /\ ex_src \in [ExFiles -> ExSources]
    /\ ex_src["root.xml"].present
    /\ ex_dest0 \in [ExFiles -> {ExMissing} \cup
                        [exists : {TRUE}, _version : {1}, body : {NoBody}]]
    /\ \A f \in ExFiles : ~ex_src[f].present => ex_dest0[f] = ExMissing
    /\ ex_dest = ex_dest0
    /\ ex_list \in {OrderFilenames(l) : l \in ExListings(ex_src)}
    /\ ex_pos = 0
    /\ ex_pc = "locales"
    /\ ex_territory = "unbound"
    /\ ex_extracted = {} /\ ex_written = {}

\* One iteration of the loop of line 318: the file is up to date and
\* skipped, or extracted and written, or its extraction raises.
ExtractNextFile ==
    /\ ex_pc = "locales"
    /\ ex_pos < Len(ex_list)
    /\ LET filename == ex_list[ex_pos + 1]
           d == ForceOrNeedConversion(ex_force, ex_dest[filename], ex_src[filename])
           r == ExtractFile(ex_territory, ex_src[filename].content)
       IN  IF ~d.need
           THEN UNCHANGED <<ex_dest, ex_pc, ex_territory, ex_extracted, ex_written>>
           ELSE /\ ex_extracted' = ex_extracted \cup {filename}
                /\ ex_territory' = r.territory
                /\ IF r.status # "ok"
                   THEN /\ ex_pc' = "aborted"
                        /\ UNCHANGED <<ex_dest, ex_written>>
                   ELSE /\ ex_dest' = [ex_dest EXCEPT ![filename] =
                                           [exists |-> TRUE,
                                            _version |-> d.data._version,
                                            body |-> r.body]]
                        /\ ex_written' = ex_written \cup {filename}
                        /\ UNCHANGED ex_pc
    /\ ex_pos' = ex_pos + 1
    /\ UNCHANGED <<ex_force, ex_src, ex_dest0, ex_list>>
    /\ UNCHANGED <<aliasVars, containVars, currencyVars, runVars, scanVars, identVars,
                   zoneVars, weekVars>>

\* The loop is exhausted and main returns.
ExtractFinish ==
    /\ ex_pc = "locales"
    /\ ex_pos = Len(ex_list)
    /\ ex_pc' = "done"
    /\ UNCHANGED <<ex_force, ex_src, ex_dest0, ex_dest, ex_list, ex_pos, ex_territory,
                   ex_extracted, ex_written>>
    /\ UNCHANGED <<aliasVars, containVars, currencyVars, runVars, scanVars, identVars,
                   zoneVars, weekVars>>

ExtractNext == ExtractNextFile \/ ExtractFinish

InitExtract ==
    ExtractInit /\ AliasIdle /\ ContainIdle /\ CurrencyIdle /\ RunIdle /\ ScanIdle
        /\ IdentIdle /\ ZoneIdle /\ WeekIdle

SpecExtract == InitExtract /\ [][ExtractNext]_vars

(***************************************************************************)
(* C13.                                                                    *)
(***************************************************************************)
\* The alias path has a segment that is neither `..`, nor a type selector,
\* nor a bare identifier.
HasBadSegment(path) ==
    LET parts == SplitSlash(path)
    IN  \E i \in 1..Len(parts) :
            /\ parts[i] # DotDot
            /\ ~TYPE_ATTR_RE_match(parts[i]).matched
            /\ ~NAME_RE_match(parts[i])

\* The structural violations the extractor meets in a file: a bad segment in
\* the path of an alias it translates, or a sub-element other than
\* greatestDifference in an interval-format item it reads (one not marked
\* draft).
StructuralViolation(content) ==
    \/ (content.alias # NoPath /\ HasBadSegment(content.alias))
    \/ (/\ content.interval.present /\ ~content.interval.draft
        /\ content.interval.sub # "greatestDifference")

\* C13: when the extraction of a locale file meets a structural violation,
\* the run is aborted: no record is written for that file, and no file later
\* in the processing order is extracted or written.
C13_StructuralViolationAborts ==
    \A i \in 1..ex_pos :
        (ex_list[i] \in ex_extracted /\ StructuralViolation(ex_src[ex_list[i]].content))
            => /\ ex_pc = "aborted"
               /\ ex_pos = i
               /\ ex_list[i] \notin ex_written
               /\ ex_dest[ex_list[i]] = ex_dest0[ex_list[i]]
               /\ \A j \in (i + 1)..Len(ex_list) :
                      /\ ex_list[j] \notin ex_extracted \cup ex_written
                      /\ ex_dest[ex_list[j]] = ex_dest0[ex_list[j]]

\* root.xml is written, en.xml holds an unknown interval sub-element, and
\* en_US.xml, stale as well, is left alone.
C13_Witness ==
    /\ ex_pc = "aborted" /\ ex_pos = 2
    /\ ex_list = <<"root.xml", "en.xml", "en_US.xml">>
    /\ ex_src["en.xml"].content.interval.sub = "other"
    /\ ~ex_src["en.xml"].content.interval.draft
    /\ ex_written = {"root.xml"}
    /\ ex_extracted = {"root.xml", "en.xml"}
    /\ ~ex_dest0["en_US.xml"].exists

\* The same abort for a bad alias segment.
C13_WitnessAlias ==
    /\ ex_pc = "aborted" /\ ex_pos = 1
    /\ Len(ex_list) = 3
    /\ ex_src["root.xml"].content.alias = ScanBadPath
    /\ ex_written = {} /\ ex_force

RecordBodyIndependentOfOtherFiles ==
    \A f \in ex_written :
        /\ ex_dest[f].body = ExpectedBody(ex_src[f].content)
        /\ ~ex_force => ex_dest[f]._version = ex_src[f].revision

=============================================================================
